---- MODULE Spec2Model ----
(***************************************************************************)
(* Tactical plan data model, plan resolver, validation checks and plan     *)
(* store of touchline_tactician (models/tactical_plan.py,                  *)
(* tools/tactical_validator.py, tools/file_operations.py).                 *)
(*                                                                         *)
(* Conventions of the model                                                *)
(*  - a call returns Ok(v) or Raise(exc, msg); msg is str(e);              *)
(*  - a text is the sequence of its dot-separated parts, so "plan.v2" is   *)
(*    <<"plan", "v2">> and s + ".json" is s \o <<"json">>;                 *)
(*  - coordinates are integers (the comparisons of the code are the same   *)
(*    on floats);                                                          *)
(*  - uuid4() and datetime.now() are inputs of the action that calls them: *)
(*    the next unused identifier and the current clock.                    *)
(***************************************************************************)
EXTENDS Integers, Sequences, FiniteSets, TLC

VARIABLES
    store,   \* plans_directory: file name -> JSON record written by save_plan
    obj,     \* the TacticalPlan object the caller holds (None when it holds none)
    clock,   \* datetime.now()
    fresh,   \* number of identifiers uuid4() has generated
    last,    \* the latest tool call: its operation, its argument and what it returned
    prev,    \* the call right before the latest, when both are the same tool on the same input
    persisted, \* the held plan was saved under its default name, and nothing changed since
    race     \* two calls running at once on one argument: the argument and each call's position

vars == <<store, obj, clock, fresh, last, prev, persisted, race>>

\* ---------------------------------------------------------------- bounds
MaxClock == 1
MaxFresh == 2
MaxCreated == 1
SuppliedIds == 1

\* ------------------------------------------------------ program constants
CoordMin == 0
CoordMax == 100
NumberMin == 1
NumberMax == 99
OutfieldPlayers == 10

\* ------------------------------------------------------------ Python values
None == [none |-> TRUE]

Ok(v) == [ok |-> TRUE, val |-> v]

\* str(e) of an exception: a fixed text and the values formatted into it
Msg(text, s, n) == [text |-> text, s |-> s, n |-> n, f |-> <<>>, nums |-> <<>>]

Raise(exc, msg) == [ok |-> FALSE, exc |-> exc, msg |-> msg]

Range(seq) == {seq[i] : i \in DOMAIN seq}

\* ------------------------------------------------------------------- uuid
\* str(UUID n): the canonical text of the n-th identifier
UuidText == <<"uuid-1", "uuid-2", "uuid-3", "uuid-4", "uuid-5", "uuid-6", "uuid-7", "uuid-8">>
\* the same identifiers in upper case, which UUID() accepts too
UuidUpper == <<"UUID-1", "UUID-2", "UUID-3", "UUID-4", "UUID-5", "UUID-6", "UUID-7", "UUID-8">>
\* surrounded by white space, which UUID() rejects and str.strip() removes
UuidPadded == <<" uuid-1 ", " uuid-2 ", " uuid-3 ", " uuid-4 ", " uuid-5 ", " uuid-6 ", " uuid-7 ", " uuid-8 ">>

UuidObj(n) == [ty |-> "UUID", id |-> n]
Str(s) == [ty |-> "str", s |-> s]
IntVal(n) == [ty |-> "int", n |-> n]
Missing == [ty |-> "missing"]

\* str(u)
str_uuid(u) == <<UuidText[u.id]>>

\* str.strip()
strip(s) ==
    IF Len(s) = 1 /\ \E n \in DOMAIN UuidPadded : s[1] = UuidPadded[n]
    THEN <<UuidText[CHOOSE n \in DOMAIN UuidPadded : s[1] = UuidPadded[n]]>>
    ELSE s

\* uuid.UUID(s): the identifier a text denotes, ValueError when it denotes none
UUID(s) ==
    IF Len(s) = 1 /\ \E n \in DOMAIN UuidText : s[1] \in {UuidText[n], UuidUpper[n]}
    THEN Ok(UuidObj(CHOOSE n \in DOMAIN UuidText : s[1] \in {UuidText[n], UuidUpper[n]}))
    ELSE Raise("ValueError", Msg("badly formed hexadecimal UUID string", s, 0))

\* the n-th identifier uuid4() generates: none of those the callers supply
uuid4(n) == UuidObj(SuppliedIds + n)

\* --------------------------------------------------------------------- Zone
\* Field(ge=0, le=100)
CoordInField(v) == CoordMin <= v /\ v <= CoordMax

\* validate_x_range: rejects x_max <= x_min when x_min is among the validated fields
validate_x_range_NonStrict(v, has_x_min, x_min) == ~(has_x_min /\ v < x_min)
validate_x_range(v, has_x_min, x_min) == ~(has_x_min /\ v <= x_min)

\* validate_y_range
validate_y_range(v, has_y_min, y_min) == ~(has_y_min /\ v <= y_min)

\* Zone(**z): the fields are validated in the order of their declaration, a field
\* validator runs on a field that passed its Field constraint, and info.data holds
\* the fields validated before it
Zone(z) ==
    IF z = None
    THEN Raise("ValidationError", Msg("Input should be a valid dictionary or instance of Zone", <<>>, 0))
    ELSE
    LET okXmin == CoordInField(z.x_min)
        rngXmax == CoordInField(z.x_max)
        okXmax == rngXmax /\ validate_x_range(z.x_max, okXmin, z.x_min)
        okYmin == CoordInField(z.y_min)
        rngYmax == CoordInField(z.y_max)
        okYmax == rngYmax /\ validate_y_range(z.y_max, okYmin, z.y_min)
    IN  IF okXmin /\ okXmax /\ okYmin /\ okYmax THEN Ok(z)
        ELSE IF ~okXmin \/ ~rngXmax \/ ~okYmin \/ ~rngYmax
        THEN Raise("ValidationError", Msg("Input should be greater than or equal to 0 and less than or equal to 100", <<>>, 0))
        ELSE IF ~okXmax
        THEN Raise("ValidationError", Msg("x_max must be greater than x_min", <<>>, 0))
        ELSE Raise("ValidationError", Msg("y_max must be greater than y_min", <<>>, 0))

\* ------------------------------------------------------------------- Player
\* Field(ge=1, le=99)
NumberInField(n) == NumberMin <= n /\ n <= NumberMax

\* Player(**p)
Player(p) ==
    IF ~NumberInField(p.number)
    THEN Raise("ValidationError", Msg("number: Input should be between 1 and 99", <<>>, p.number))
    ELSE IF ~Zone(p.zone).ok THEN Zone(p.zone)
    ELSE Ok(p)

\* ------------------------------------------------------------- TacticalPlan
\* the plan_id field: default_factory=uuid4 when the key is absent, a UUID as it
\* is, a text parsed as uuid.UUID parses it, anything else rejected
plan_id_field_AlwaysFresh(v, fid) == Ok(uuid4(fid))
plan_id_field(v, fid) ==
    IF v = Missing THEN Ok(uuid4(fid))
    ELSE IF v.ty = "UUID" THEN Ok(v)
    ELSE IF v.ty = "str" /\ UUID(v.s).ok THEN UUID(v.s)
    ELSE Raise("ValidationError", Msg("plan_id: Input should be a valid UUID", <<>>, 0))

\* the metadata field: the default_factory stamps both times with datetime.now()
metadata_field_AlwaysNow(v, now) == [created_at |-> now, modified_at |-> now]
metadata_field(v, now) ==
    IF v = Missing THEN [created_at |-> now, modified_at |-> now] ELSE v

\* TacticalPlan(**d), with fid the identifier uuid4() would return and now the clock
TacticalPlan(d, fid, now) ==
    IF ~plan_id_field(d.plan_id, fid).ok THEN plan_id_field(d.plan_id, fid)
    ELSE IF \E i \in DOMAIN d.players : ~Player(d.players[i]).ok
    THEN Player(d.players[CHOOSE i \in DOMAIN d.players :
                   /\ ~Player(d.players[i]).ok
                   /\ \A j \in 1..(i - 1) : Player(d.players[j]).ok])
    ELSE IF \E i \in DOMAIN d.zones : ~Zone(d.zones[i]).ok
    THEN Zone(d.zones[CHOOSE i \in DOMAIN d.zones : ~Zone(d.zones[i]).ok])
    ELSE Ok([d EXCEPT !.plan_id = plan_id_field(d.plan_id, fid).val,
                      !.metadata = metadata_field(d.metadata, now)])

\* TacticalPlan.update_modified_time
update_modified_time_Both(plan, now) ==
    [plan EXCEPT !.metadata = [created_at |-> now, modified_at |-> now]]
update_modified_time(plan, now) == [plan EXCEPT !.metadata.modified_at = now]

\* TacticalPlan.get_player_by_number
get_player_by_number_Last(plan, number) ==
    IF \E i \in DOMAIN plan.players : plan.players[i].number = number
    THEN plan.players[CHOOSE i \in DOMAIN plan.players :
              /\ plan.players[i].number = number
              /\ \A j \in (i + 1)..Len(plan.players) : plan.players[j].number # number]
    ELSE None
get_player_by_number(plan, number) ==
    IF \E i \in DOMAIN plan.players : plan.players[i].number = number
    THEN plan.players[CHOOSE i \in DOMAIN plan.players :
              /\ plan.players[i].number = number
              /\ \A j \in 1..(i - 1) : plan.players[j].number # number]
    ELSE None

\* a formation is the sequence of its characters
F433 == <<"4", "-", "3", "-", "3">>
F442 == <<"4", "-", "4", "-", "2">>
F4231 == <<"4", "-", "2", "-", "3", "-", "1">>
F352 == <<"3", "-", "5", "-", "2">>
F343 == <<"3", "-", "4", "-", "3">>
F532 == <<"5", "-", "3", "-", "2">>
F451 == <<"4", "-", "5", "-", "1">>
F333 == <<"3", "-", "3", "-", "3">>
F433NoHyphen == <<"4", "3", "3">>

standard_formations == {F433, F442, F4231, F352, F343, F532, F451}

\* TacticalPlan.validate_formation
plan_validate_formation_AtLeast(plan) ==
    IF plan.formation \in standard_formations
    THEN Len(plan.players) >= OutfieldPlayers + 1
    ELSE TRUE
plan_validate_formation(plan) ==
    IF plan.formation \in standard_formations
    THEN Len(plan.players) = OutfieldPlayers + 1
    ELSE TRUE

\* plan.model_dump(mode='json') with plan_id as text: what json.dump writes
model_dump_json(plan) == [plan EXCEPT !.plan_id = Str(str_uuid(plan.plan_id))]

\* --------------------------------------------------------------------- json
NotJson == [notjson |-> TRUE]

\* a text: its characters s and the value it holds when it is a JSON document
Text(s, json) == [s |-> s, json |-> json]

\* json.dumps of a record
json_dumps(d) == Text(<<"{...}">>, d)

\* json.loads
json_loads(text) ==
    IF text.json = NotJson
    THEN Raise("JSONDecodeError", Msg("Expecting value", text.s, 0))
    ELSE Ok(text.json)

IsDict(v) == "formation" \in DOMAIN v

\* ------------------------------------------------------------------ pathlib
\* str.endswith('.json')
endswith_json(name) == Len(name) >= 2 /\ name[Len(name)] = "json"

\* PurePath.suffix is not empty: the name has a dot that is neither its first nor
\* its last character
has_suffix(name) ==
    /\ Len(name) >= 2
    /\ name[Len(name)] # ""
    /\ SubSeq(name, 1, Len(name) - 1) # <<"">>

\* PurePath.with_suffix('.json')
with_suffix_json(name) ==
    IF has_suffix(name) THEN SubSeq(name, 1, Len(name) - 1) \o <<"json">>
    ELSE name \o <<"json">>

\* the file the resolver looks a file name up in (lines 114-118)
resolver_filename_Append(text) == strip(text) \o <<"json">>
resolver_filename(text) ==
    LET name == strip(text)
    IN  IF ~has_suffix(name) THEN with_suffix_json(name)
        ELSE IF name[Len(name)] # "json" THEN with_suffix_json(name)
        ELSE name

\* the file save_plan, load_plan and delete_plan address
store_filename_Replace(filename) ==
    IF ~endswith_json(filename) THEN with_suffix_json(filename) ELSE filename
store_filename(filename) ==
    IF ~endswith_json(filename) THEN filename \o <<"json">> ELSE filename

\* -------------------------------------------------------------- _parse_plan
\* an argument of a tool: the held TacticalPlan object, a dict, a text, or a
\* value of another type
PlanArg == [ty |-> "TacticalPlan"]
DictArg(d) == [ty |-> "dict", val |-> d]
StrArg(text) == [ty |-> "str", val |-> text]
OtherArg == [ty |-> "int"]
NameArg(filename) == [ty |-> "filename", name |-> filename]

\* lines 51-56 and 62-67: what the plan_id conversion leaves in the dict
coerce_plan_id(d) ==
    IF d.plan_id # Missing /\ d.plan_id.ty = "str"
    THEN IF UUID(d.plan_id.s).ok
         THEN [d EXCEPT !.plan_id = UUID(d.plan_id.s).val]
         ELSE [d EXCEPT !.plan_id = Missing]
    ELSE d

\* re.search(r"plan_id=UUID\(['\"]([^'\"]+)['\"]\)", plan): the text of group 1
ReprOfUuid == <<"plan_id=UUID('uuid-1') name='Press High'", "plan_id=UUID('uuid-2') name='Press High'",
                "plan_id=UUID('uuid-3') name='Press High'", "plan_id=UUID('uuid-4') name='Press High'",
                "plan_id=UUID('uuid-5') name='Press High'", "plan_id=UUID('uuid-6') name='Press High'",
                "plan_id=UUID('uuid-7') name='Press High'", "plan_id=UUID('uuid-8') name='Press High'">>
ReprNotUuid == "plan_id=UUID('not-a-real-uuid')"
\* a text of more than 100 characters with the pattern past the 100th, and its
\* first 100 characters
LongPrefix == "xxxxxxxxxxxxxxxxxxxxxxxxxxxxxxxxxxxxxxxxxxxxxxxxxxxxxxxxxxxxxxxxxxxxxxxxxxxxxxxxxxxxxxxxxxxxxxxxxxxx"
LongReprNotUuid == "xxxxxxxxxxxxxxxxxxxxxxxxxxxxxxxxxxxxxxxxxxxxxxxxxxxxxxxxxxxxxxxxxxxxxxxxxxxxxxxxxxxxxxxxxxxxxxxxxxxxplan_id=UUID('not-a-real-uuid')"

\* plan[:100]: every other text of the model is shorter than 100 characters
first100(s) == IF s = <<LongReprNotUuid>> THEN <<LongPrefix>> ELSE s

uuid_match(s) ==
    IF Len(s) = 1 /\ \E n \in DOMAIN ReprOfUuid : s[1] = ReprOfUuid[n]
    THEN Ok(<<UuidText[CHOOSE n \in DOMAIN ReprOfUuid : s[1] = ReprOfUuid[n]]>>)
    ELSE IF s \in {<<ReprNotUuid>>, <<LongReprNotUuid>>} THEN Ok(<<"not-a-real-uuid">>)
    ELSE Raise("NoMatch", Msg("", s, 0))

\* lines 72-89: the identifier recovered from a text that is no JSON document
plan_uuid_of(s) ==
    IF uuid_match(s).ok /\ UUID(uuid_match(s).val).ok THEN UUID(uuid_match(s).val).val
    ELSE IF UUID(strip(s)).ok THEN UUID(strip(s)).val
    ELSE None

\* lines 96-106 and 122-132: a stored record read back into a TacticalPlan
plan_from_file_Unvalidated(record, label, fid, now) == Ok(coerce_plan_id(record))
plan_from_file(record, label, fid, now) ==
    LET pid == record.plan_id
        failed == Raise("ValueError", Msg("Error loading plan file", label, 0))
    IN  IF pid # Missing /\ pid.ty = "str" /\ ~UUID(pid.s).ok THEN failed
        ELSE IF ~TacticalPlan(coerce_plan_id(record), fid, now).ok THEN failed
        ELSE TacticalPlan(coerce_plan_id(record), fid, now)

\* lines 72-138: a text resolved as a reference into the plans directory
parse_reference_Fallback(s, dir, fid, now) ==
    LET plan_uuid == plan_uuid_of(s)
        id_file == str_uuid(plan_uuid) \o <<"json">>
        name_file == resolver_filename(s)
    IN  IF plan_uuid # None /\ id_file \in DOMAIN dir
        THEN plan_from_file(dir[id_file], str_uuid(plan_uuid), fid, now)
        ELSE IF name_file \in DOMAIN dir
             THEN plan_from_file(dir[name_file], name_file, fid, now)
             ELSE Raise("ValueError", Msg("Invalid plan input", first100(s), 0))
parse_reference(s, dir, fid, now) ==
    LET plan_uuid == plan_uuid_of(s)
        id_file == str_uuid(plan_uuid) \o <<"json">>
        name_file == resolver_filename(s)
    IN  IF plan_uuid # None
        THEN IF id_file \in DOMAIN dir
             THEN plan_from_file(dir[id_file], str_uuid(plan_uuid), fid, now)
             ELSE Raise("ValueError", Msg("Plan file not found for plan_id", str_uuid(plan_uuid), 0))
        ELSE IF name_file \in DOMAIN dir
             THEN plan_from_file(dir[name_file], name_file, fid, now)
             ELSE Raise("ValueError", Msg("Invalid plan input", first100(s), 0))

\* TacticalValidatorTools._parse_plan
parse_plan(plan, held, dir, fid, now) ==
    IF plan.ty = "TacticalPlan" THEN Ok(held)
    ELSE IF plan.ty = "dict" THEN TacticalPlan(coerce_plan_id(plan.val), fid, now)
    ELSE IF plan.ty = "str"
    THEN IF json_loads(plan.val).ok /\ IsDict(json_loads(plan.val).val)
         THEN TacticalPlan(coerce_plan_id(json_loads(plan.val).val), fid, now)
         ELSE \* JSONDecodeError, or the TypeError of a JSON value that is no object
              parse_reference(plan.val.s, dir, fid, now)
    ELSE Raise("TypeError", Msg("Invalid plan type", <<plan.ty>>, 0))

\* whether the call draws an identifier from uuid4()
draws_uuid4(plan) ==
    \/ plan.ty = "dict" /\ coerce_plan_id(plan.val).plan_id = Missing
    \/ /\ plan.ty = "str"
       /\ json_loads(plan.val).ok
       /\ IsDict(json_loads(plan.val).val)
       /\ coerce_plan_id(json_loads(plan.val).val).plan_id = Missing

\* ------------------------------------------------------------------- checks
Issue(text, n) == Msg(text, <<>>, n)

\* the report of a check that found these issues
Report(issues, validMessage) ==
    [valid |-> Len(issues) = 0,
     issues |-> issues,
     message |-> IF Len(issues) = 0 THEN Msg(validMessage, <<>>, 0)
                 ELSE Msg("Found issues", <<>>, Len(issues))]

\* the report of the except branch
ErrorReport(e) ==
    [valid |-> FALSE,
     issues |-> <<e.msg>>,
     message |-> [e.msg EXCEPT !.text = "Validation error"]]

\* str.upper() of a position code
upper_Identity(s) == s
upper(s) ==
    CASE s = "gk" -> "GK"
      [] s = "Gk" -> "GK"
      [] s = "cb" -> "CB"
      [] s = "goalkeeper" -> "GOALKEEPER"
      [] s = "Goalkeeper" -> "GOALKEEPER"
      [] OTHER -> s

gk_codes == {"GK", "GOALKEEPER"}

\* line 170
has_gk(players) == \E i \in DOMAIN players : upper(players[i].position) \in gk_codes

\* lines 156-178
formation_issues_Stamped(plan) ==
    <<Issue("Checked plan", plan.plan_id.id)>>
    \o (IF ~has_gk(plan.players)
        THEN <<Issue("Team must have a goalkeeper (GK)", 0)>> ELSE <<>>)
formation_issues(plan) ==
    (IF plan.formation = <<>> \/ "-" \notin Range(plan.formation)
     THEN <<Issue("Formation must be in format like '4-3-3'", 0)>> ELSE <<>>)
    \o (IF ~plan_validate_formation(plan)
        THEN <<[Issue("Number of players doesn't match expected for formation", Len(plan.players))
                   EXCEPT !.f = plan.formation]>>
        ELSE <<>>)
    \o (IF ~has_gk(plan.players)
        THEN <<Issue("Team must have a goalkeeper (GK)", 0)>> ELSE <<>>)

\* TacticalValidatorTools.validate_formation
validate_formation(plan, held, dir, fid, now) ==
    LET r == parse_plan(plan, held, dir, fid, now)
    IN  IF ~r.ok THEN ErrorReport(r)
        ELSE Report(formation_issues(r.val), "Formation is valid")

valid_positions_WithGoalkeeper ==
    {"GK", "GOALKEEPER", "CB", "LB", "RB", "LWB", "RWB", "CDM", "CM", "CAM", "LM", "RM",
     "LW", "RW", "ST", "CF"}
valid_positions == {"GK", "CB", "LB", "RB", "LWB", "RWB", "CDM", "CM", "CAM", "LM", "RM",
                    "LW", "RW", "ST", "CF"}

\* lines 208-218
position_issues_FirstDuplicate(plan) ==
    LET players == plan.players
        numbers == [i \in DOMAIN players |-> players[i].number]
        count(n) == Cardinality({i \in DOMAIN numbers : numbers[i] = n})
        bad(p) == upper(p.position) \notin valid_positions
        dup(n) == count(n) > 1
        badPlayers == SelectSeq(players, bad)
        duplicates == SelectSeq(numbers, dup)
    IN  [i \in DOMAIN badPlayers |->
            [Issue("Player has invalid position", badPlayers[i].number)
                EXCEPT !.s = <<badPlayers[i].position>>]]
        \o (IF duplicates # <<>>
            THEN <<[Issue("Duplicate player numbers", 0) EXCEPT !.nums = <<Head(duplicates)>>]>>
            ELSE <<>>)
position_issues(plan) ==
    LET players == plan.players
        numbers == [i \in DOMAIN players |-> players[i].number]
        count(n) == Cardinality({i \in DOMAIN numbers : numbers[i] = n})
        bad(p) == upper(p.position) \notin valid_positions
        dup(n) == count(n) > 1
        badPlayers == SelectSeq(players, bad)
        duplicates == SelectSeq(numbers, dup)
    IN  [i \in DOMAIN badPlayers |->
            [Issue("Player has invalid position", badPlayers[i].number)
                EXCEPT !.s = <<badPlayers[i].position>>]]
        \o (IF duplicates # <<>>
            THEN <<[Issue("Duplicate player numbers", 0) EXCEPT !.nums = duplicates]>>
            ELSE <<>>)

\* TacticalValidatorTools.validate_player_positions
validate_player_positions(plan, held, dir, fid, now) ==
    LET r == parse_plan(plan, held, dir, fid, now)
    IN  IF ~r.ok THEN ErrorReport(r)
        ELSE Report(position_issues(r.val), "Player positions are valid")

\* lines 256-257
zone_out_of_bounds_OrInverted(zone) ==
    \/ zone.x_min < CoordMin \/ zone.x_max > CoordMax \/ zone.y_min < CoordMin \/ zone.y_max > CoordMax
    \/ zone.x_max <= zone.x_min \/ zone.y_max <= zone.y_min
zone_out_of_bounds(zone) ==
    zone.x_min < CoordMin \/ zone.x_max > CoordMax \/ zone.y_min < CoordMin \/ zone.y_max > CoordMax

\* lines 249-251
missing_zone_issues(players) ==
    LET noZone(p) == p.zone = None
        lacking == SelectSeq(players, noZone)
    IN  [i \in DOMAIN lacking |-> Issue("Player is missing a zone", lacking[i].number)]

\* lines 254-258
bounds_issues(players) ==
    LET out(p) == zone_out_of_bounds(p.zone)
        outside == SelectSeq(players, out)
    IN  [i \in DOMAIN outside |-> Issue("Player zone is out of bounds", outside[i].number)]

\* lines 246-264: the second loop reads zone.x_min of every player, and raises
\* AttributeError on the first player whose zone is None
zones_body(plan) ==
    IF \E i \in DOMAIN plan.players : plan.players[i].zone = None
    THEN Raise("AttributeError", Msg("'NoneType' object has no attribute 'x_min'", <<>>, 0))
    ELSE Ok(Report(missing_zone_issues(plan.players) \o bounds_issues(plan.players),
                   "Zones are valid"))

\* TacticalValidatorTools.validate_zones
validate_zones_Unguarded(plan, held, dir, fid, now) ==
    LET r == parse_plan(plan, held, dir, fid, now)
    IN  IF ~r.ok THEN ErrorReport(r)
        ELSE IF ~zones_body(r.val).ok THEN zones_body(r.val)
        ELSE zones_body(r.val).val
validate_zones(plan, held, dir, fid, now) ==
    LET r == parse_plan(plan, held, dir, fid, now)
    IN  IF ~r.ok THEN ErrorReport(r)
        ELSE IF ~zones_body(r.val).ok THEN ErrorReport(zones_body(r.val))
        ELSE zones_body(r.val).val

required_phases == <<"attack", "defense", "transition">>

\* lines 289-296, for one player
phase_issues(player) ==
    IF player.phases = {}
    THEN <<Issue("Player missing phase instructions", player.number)>>
    ELSE LET absent(ph) == ph \notin player.phases
             lacking == SelectSeq(required_phases, absent)
         IN  [i \in DOMAIN lacking |->
                 [Issue("Player missing phase instructions for", player.number)
                     EXCEPT !.s = <<lacking[i]>>]]

RECURSIVE all_phase_issues(_)
all_phase_issues(players) ==
    IF players = <<>> THEN <<>>
    ELSE phase_issues(Head(players)) \o all_phase_issues(Tail(players))

\* lines 286-306
consistency_issues_PhasesOrTriggers(plan) ==
    IF all_phase_issues(plan.players) # <<>> THEN all_phase_issues(plan.players)
    ELSE IF plan.pressing_triggers = <<>>
    THEN <<Issue("No pressing triggers defined", 0)>> ELSE <<>>
consistency_issues(plan) ==
    all_phase_issues(plan.players)
    \o (IF plan.pressing_triggers = <<>>
        THEN <<Issue("No pressing triggers defined", 0)>> ELSE <<>>)

\* TacticalValidatorTools.check_tactical_consistency
check_tactical_consistency(plan, held, dir, fid, now) ==
    LET r == parse_plan(plan, held, dir, fid, now)
    IN  IF ~r.ok THEN ErrorReport(r)
        ELSE Report(consistency_issues(r.val), "Tactical plan is consistent")

Checks == {"validate_formation", "validate_player_positions", "validate_zones",
           "check_tactical_consistency"}

\* the tool named check, called with plan
run_check(check, plan, held, dir, fid, now) ==
    CASE check = "validate_formation" -> validate_formation(plan, held, dir, fid, now)
      [] check = "validate_player_positions" -> validate_player_positions(plan, held, dir, fid, now)
      [] check = "validate_zones" -> validate_zones(plan, held, dir, fid, now)
      [] check = "check_tactical_consistency" -> check_tactical_consistency(plan, held, dir, fid, now)

\* ------------------------------------------------------------------ the store
\* lines 63-69 of create_plan: UUID(plan_data['plan_id']) raises ValueError on a
\* text that is no identifier and TypeError on None, both of which drop the key,
\* and AttributeError (not caught there) on a value that has no replace()
create_plan_id(d) ==
    LET v == d.plan_id
    IN  IF v = Missing THEN Ok(d)
        ELSE IF v.ty = "str"
        THEN Ok(IF UUID(v.s).ok THEN d ELSE [d EXCEPT !.plan_id = Missing])
        ELSE IF v.ty = "NoneType" THEN Ok([d EXCEPT !.plan_id = Missing])
        ELSE Raise("AttributeError", Msg("object has no attribute 'replace'", <<v.ty>>, 0))

\* filename=None: no text has no parts
NoFilename == <<>>

\* lines 109-115 of save_plan: the file a plan is written to
save_filename(plan, filename) ==
    IF filename = NoFilename THEN str_uuid(plan.plan_id) \o <<"json">>
    ELSE store_filename(filename)

\* lines 118-125 of save_plan: the directory after the write
written_Stale(dir, plan, filename, now) ==
    (save_filename(plan, filename) :> model_dump_json(plan)) @@ dir
written(dir, plan, filename, now) ==
    (save_filename(plan, filename) :> model_dump_json(update_modified_time(plan, now))) @@ dir

\* lines 145-160 of load_plan
load_plan_Restamped(dir, filename, fid, now) ==
    LET file == store_filename(filename)
    IN  IF file \notin DOMAIN dir
        THEN Raise("FileNotFoundError", Msg("Plan file not found", file, 0))
        ELSE TacticalPlan([coerce_plan_id(dir[file]) EXCEPT !.metadata = Missing], fid, now)
load_plan(dir, filename, fid, now) ==
    LET file == store_filename(filename)
    IN  IF file \notin DOMAIN dir
        THEN Raise("FileNotFoundError", Msg("Plan file not found", file, 0))
        ELSE IF ~UUID(dir[file].plan_id.s).ok THEN UUID(dir[file].plan_id.s)
        ELSE TacticalPlan(coerce_plan_id(dir[file]), fid, now)

\* list_plans: the stems of the *.json files
list_plans_WithExtension(dir) == {g \in DOMAIN dir : endswith_json(g)}
list_plans(dir) == {SubSeq(f, 1, Len(f) - 1) : f \in {g \in DOMAIN dir : endswith_json(g)}}

\* ---------------------------------------------------------------- the inputs
Shirt == <<"GK", "LB", "CB", "CB", "RB", "CM", "CM", "CM", "LW", "ST", "RW", "CF">>
Pitch == [x_min |-> 10, x_max |-> 90, y_min |-> 0, y_max |-> 100]
AllPhases == {"attack", "defense", "transition"}

BasePlayer(i) == [number |-> i, position |-> Shirt[i], zone |-> Pitch, phases |-> AllPhases]
Roster(n) == [i \in 1..n |-> BasePlayer(i)]

PlanDict(pid, formation, players) ==
    [plan_id |-> pid, name |-> "Press High", formation |-> formation, players |-> players,
     zones |-> <<>>, pressing_triggers |-> <<"opponent back pass">>,
     transition_instructions |-> {"attack_to_defense"}, metadata |-> Missing]

Full == OutfieldPlayers + 1

\* rosters a caller may send: complete, short, long, without goalkeeper, with two,
\* with a repeated number, with an unknown position, with phases missing
Rosters ==
    {Roster(Full), Roster(Full - 2), Roster(Full + 1),
     [Roster(Full) EXCEPT ![1].position = "CB"],
     [Roster(Full) EXCEPT ![1].position = "goalkeeper"],
     [Roster(Full) EXCEPT ![2].position = "GK"],
     [Roster(Full) EXCEPT ![2].position = "GOALKEEPER", ![3].position = "gk"],
     [Roster(Full) EXCEPT ![2].number = 1],
     [Roster(Full) EXCEPT ![2].position = "SW"],
     [Roster(Full) EXCEPT ![2].phases = {"attack"}]}

\* rosters the constructor rejects: a number or a zone outside its Field
BadRosters ==
    {[Roster(Full) EXCEPT ![2].number = NumberMax + 1],
     [Roster(Full) EXCEPT ![2].zone.x_max = 10],
     [Roster(Full) EXCEPT ![2].zone.y_max = CoordMax + 5]}

Formations == {F433, F333, F433NoHyphen}

FirstId == Str(<<UuidText[1]>>)

\* the plan a dict constructs, for the dicts that construct one
Constructed(dicts) == {TacticalPlan(d, 1, 0).val : d \in {e \in dicts : TacticalPlan(e, 1, 0).ok}}

\* zones an edit assigns to a player of the held plan, past the constructor
EditZones ==
    {None,
     [Pitch EXCEPT !.x_min = CoordMax + 5],
     [Pitch EXCEPT !.x_max = CoordMin - 5],
     [Pitch EXCEPT !.y_min = CoordMax + 5],
     [Pitch EXCEPT !.y_max = CoordMin - 5],
     [Pitch EXCEPT !.x_min = CoordMin - 5],
     [Pitch EXCEPT !.y_max = CoordMax + 5],
     [Pitch EXCEPT !.x_min = 20]}

\* coordinates on both sides of every comparison of Zone
Coords == {CoordMin - 5, CoordMin, 10, 90, CoordMax, CoordMax + 5}

Zones == [x_min : Coords, x_max : Coords, y_min : Coords, y_max : Coords]

\* the forms in which a caller refers to the plan it holds
FormsOf(plan) ==
    {PlanArg, DictArg(plan), DictArg(model_dump_json(plan)),
     StrArg(json_dumps(model_dump_json(plan))),
     StrArg(Text(str_uuid(plan.plan_id), NotJson))}

HeldArgs == IF obj = None THEN {} ELSE FormsOf(obj)

\* --------------------------------------------------------------- tool calls
NoCall == [op |-> "none"]
Call(op, arg, after, result) == [op |-> op, arg |-> arg, after |-> after, result |-> result]

\* the argument as the call leaves it in the caller's hands
ArgAfter_Untouched(arg) == arg
ArgAfter(arg) ==
    IF arg.ty = "dict" THEN DictArg(coerce_plan_id(arg.val)) ELSE arg

\* no two calls are running at once
Idle == [pc |-> "idle"]

\* time passes
Tick ==
    /\ clock < MaxClock
    /\ clock' = clock + 1
    /\ UNCHANGED <<race, store, obj, fresh, last, prev, persisted>>

\* TacticalPlanFileTools.create_plan(plan_data, filename)
CreatePlan(plan_data, filename) ==
    LET d == create_plan_id(plan_data)
        draws == d.ok /\ d.val.plan_id = Missing
        plan == IF d.ok THEN TacticalPlan(d.val, fresh + 1, clock) ELSE d
    IN  /\ draws => fresh < MaxCreated
        /\ fresh' = IF draws THEN fresh + 1 ELSE fresh
        /\ store' = IF plan.ok THEN written(store, plan.val, filename, clock) ELSE store
        /\ last' = Call("create_plan", DictArg(plan_data), NameArg(filename),
                        IF plan.ok THEN Ok(save_filename(plan.val, filename)) ELSE plan)
        /\ prev' = NoCall
        /\ persisted' = FALSE
        /\ UNCHANGED <<race, obj, clock>>

\* TacticalPlanFileTools.save_plan(plan, filename) on the held plan
SavePlan(filename) ==
    /\ obj # None
    /\ obj' = update_modified_time(obj, clock)
    /\ store' = written(store, obj, filename, clock)
    /\ last' = Call("save_plan", PlanArg, NameArg(filename), Ok(save_filename(obj, filename)))
    /\ prev' = NoCall
    /\ persisted' = (filename = NoFilename)
    /\ UNCHANGED <<race, clock, fresh>>

\* TacticalPlanFileTools.load_plan(filename): the caller holds the plan returned
LoadPlan(filename) ==
    LET r == load_plan(store, filename, fresh + 1, clock)
    IN  /\ obj' = IF r.ok THEN r.val ELSE obj
        /\ last' = Call("load_plan", NameArg(filename), NameArg(filename), r)
        /\ prev' = NoCall
        /\ persisted' = FALSE
        /\ UNCHANGED <<race, store, clock, fresh>>

\* lines 194-202 of delete_plan: the directory after the call
deleted(dir, filename) ==
    [f \in DOMAIN dir \ {store_filename(filename)} |-> dir[f]]

\* TacticalPlanFileTools.delete_plan(filename)
DeletePlan(filename) ==
    LET file == store_filename(filename)
    IN  /\ store' = deleted(store, filename)
        /\ last' = Call("delete_plan", NameArg(filename), NameArg(filename),
                        IF file \in DOMAIN store THEN Ok(file)
                        ELSE Raise("FileNotFoundError", Msg("Plan file not found", file, 0)))
        /\ prev' = NoCall
        /\ persisted' = FALSE
        /\ UNCHANGED <<race, obj, clock, fresh>>

\* an edit of the held plan: player i is given another zone by assignment
EditZone(i, zone) ==
    /\ obj # None
    /\ i \in DOMAIN obj.players
    /\ obj' = [obj EXCEPT !.players[i].zone = zone]
    /\ last' = NoCall
    /\ prev' = NoCall
    /\ persisted' = FALSE
    /\ UNCHANGED <<race, store, clock, fresh>>

\* the same check was the latest call, with the same argument
Rechecks(check, arg) ==
    IF last.op # check THEN FALSE ELSE arg \in {last.arg, last.after}

\* one of the four validation tools is called; the call right before it is kept
\* with it when it was the same check of the same argument
Validate_Saving(check, arg) ==
    /\ arg = PlanArg => obj # None
    /\ draws_uuid4(arg) => fresh < MaxFresh
    /\ fresh' = IF draws_uuid4(arg) THEN fresh + 1 ELSE fresh
    /\ last' = Call(check, arg, ArgAfter(arg), run_check(check, arg, obj, store, fresh + 1, clock))
    /\ prev' = IF Rechecks(check, arg) THEN last ELSE NoCall
    /\ obj' = IF arg = PlanArg THEN update_modified_time(obj, clock) ELSE obj
    /\ store' = IF arg = PlanArg THEN written(store, obj, NoFilename, clock) ELSE store
    /\ UNCHANGED <<race, clock, persisted>>
Validate(check, arg) ==
    /\ arg = PlanArg => obj # None
    /\ draws_uuid4(arg) => fresh < MaxFresh
    /\ fresh' = IF draws_uuid4(arg) THEN fresh + 1 ELSE fresh
    /\ last' = Call(check, arg, ArgAfter(arg), run_check(check, arg, obj, store, fresh + 1, clock))
    /\ prev' = IF Rechecks(check, arg) THEN last ELSE NoCall
    /\ UNCHANGED <<race, store, obj, clock, persisted>>

\* two resolver calls in a row that are kept together: the same argument again,
\* or two forms of the held plan
Follows(arg) ==
    IF last.op # "_parse_plan" THEN FALSE
    ELSE IF arg \in {last.arg, last.after} THEN TRUE
    ELSE arg \in HeldArgs /\ last.arg \in HeldArgs

\* the resolver is called; the resolver call right before it is kept with it
Resolve(arg) ==
    /\ arg = PlanArg => obj # None
    /\ draws_uuid4(arg) => fresh < MaxFresh
    /\ fresh' = IF draws_uuid4(arg) THEN fresh + 1 ELSE fresh
    /\ last' = Call("_parse_plan", arg, ArgAfter(arg), parse_plan(arg, obj, store, fresh + 1, clock))
    /\ prev' = IF Follows(arg) THEN last ELSE NoCall
    /\ UNCHANGED <<race, store, obj, clock, persisted>>

\* Zone(**zone) is called
NewZone(zone) ==
    /\ last' = Call("Zone", zone, zone, Zone(zone))
    /\ prev' = NoCall
    /\ UNCHANGED <<race, store, obj, clock, fresh, persisted>>

\* ------------------------------------------------- the store and its callers
\* the dicts create_plan is given
StoreDicts ==
    {PlanDict(Missing, F433, Roster(Full)),
     PlanDict(FirstId, F433, Roster(Full - 2)),
     PlanDict(Str(<<"433-standard-001">>), F433, [Roster(Full) EXCEPT ![2].zone.x_max = 10])}

Filenames == {NoFilename, <<"myplan">>}

StoreNames == {<<UuidText[n]>> : n \in 1..(SuppliedIds + MaxCreated)} \cup (Filenames \ {NoFilename})

Init ==
    /\ store = <<>>
    /\ obj = None
    /\ clock = 0
    /\ fresh = 0
    /\ last = NoCall
    /\ prev = NoCall
    /\ persisted = FALSE
    /\ race = Idle

Next ==
    \/ Tick
    \/ \E d \in StoreDicts, f \in Filenames : CreatePlan(d, f)
    \/ \E f \in Filenames : SavePlan(f)
    \/ \E f \in StoreNames : LoadPlan(f)
    \/ \E f \in StoreNames : DeletePlan(f)
    \/ EditZone(1, None)

Spec == Init /\ [][Next]_vars

\* ------------------------------------------------------------ Zone(**bounds)
NextZone == \E z \in Zones : NewZone(z)

SpecZone == Init /\ [][NextZone]_vars

\* ------------------------------------------- the checks on a held, edited plan
CheckDicts == {PlanDict(FirstId, f, r) : f \in Formations, r \in Rosters}

InitChecks ==
    /\ store = <<>>
    /\ obj \in Constructed(CheckDicts)
    /\ clock = 0
    /\ fresh = 0
    /\ last = NoCall
    /\ prev = NoCall
    /\ persisted = FALSE
    /\ race = Idle

NextChecks ==
    \/ \E i \in 1..2, z \in EditZones : EditZone(i, z)
    \/ \E c \in Checks : Validate(c, PlanArg)

SpecChecks == InitChecks /\ [][NextChecks]_vars

\* ------------------------------------------- the resolver and what it is given
PlanIds == {Missing, FirstId, Str(<<UuidUpper[1]>>), Str(<<UuidPadded[1]>>),
            Str(<<"433-standard-001">>), IntVal(42)}

\* a team zone the constructor accepts, and one it rejects
TeamZones == {<<[Pitch EXCEPT !.y_max = 50]>>, <<[Pitch EXCEPT !.y_min = CoordMax]>>}

ResolveDicts ==
    {PlanDict(pid, F433, Roster(Full)) : pid \in PlanIds}
    \cup {PlanDict(pid, F433, r) : pid \in {Missing, FirstId}, r \in BadRosters}
    \cup {[PlanDict(FirstId, F433, Roster(Full)) EXCEPT !.zones = z] : z \in TeamZones}

ResolveTexts ==
    {Text(<<UuidPadded[1]>>, NotJson), Text(<<"myplan">>, NotJson),
     Text(<<ReprNotUuid>>, NotJson), Text(<<"5">>, [jty |-> "number"])}

ResolveArgs ==
    {DictArg(d) : d \in ResolveDicts}
    \cup {StrArg(json_dumps(d)) : d \in {e \in ResolveDicts : e.plan_id = Missing \/ e.plan_id.ty # "UUID"}}
    \cup {StrArg(t) : t \in ResolveTexts}
    \cup {OtherArg}

InitResolve ==
    /\ store = <<>>
    /\ obj \in Constructed({PlanDict(FirstId, F433, Roster(Full))})
    /\ clock = 0
    /\ fresh = 0
    /\ last = NoCall
    /\ prev = NoCall
    /\ persisted = FALSE
    /\ race = Idle

NextResolve ==
    \/ Tick
    \/ SavePlan(NoFilename)
    \/ EditZone(1, [Pitch EXCEPT !.x_min = CoordMax + 5])
    \/ \E a \in HeldArgs \cup ResolveArgs : Resolve(a)

SpecResolve == InitResolve /\ [][NextResolve]_vars

\* ------------------------------------------ the checks and what they are given
ValidateArgs ==
    {DictArg(PlanDict(Missing, F433, Roster(Full))),
     DictArg(PlanDict(FirstId, F433, [Roster(Full) EXCEPT ![2].number = NumberMax + 1])),
     StrArg(json_dumps(PlanDict(Str(<<"433-standard-001">>), F433, Roster(Full - 2)))),
     StrArg(Text(<<UuidPadded[1]>>, NotJson)),
     StrArg(Text(<<"myplan">>, NotJson)),
     StrArg(Text(<<"5">>, [jty |-> "number"])),
     OtherArg}

NextValidate ==
    \/ SavePlan(NoFilename)
    \/ EditZone(1, None)
    \/ \E c \in Checks, a \in HeldArgs \cup ValidateArgs : Validate(c, a)

SpecValidate == InitResolve /\ [][NextValidate]_vars

\* ------------------------------------------------------------------- claims
IsReport(r) == DOMAIN r = {"valid", "issues", "message"}

Reported(report, issue) == \E k \in DOMAIN report.issues : report.issues[k] = issue

GoalkeeperCount(players) ==
    Cardinality({i \in DOMAIN players : upper(players[i].position) \in gk_codes})

\* some bound of the zone lies outside [0,100]
AnyBoundOutside(z) ==
    \E v \in {z.x_min, z.x_max, z.y_min, z.y_max} : v < CoordMin \/ v > CoordMax

\* 0 <= min < max <= 100 on both axes
ZoneWellFormed(z) ==
    /\ z # None
    /\ CoordMin <= z.x_min /\ z.x_min < z.x_max /\ z.x_max <= CoordMax
    /\ CoordMin <= z.y_min /\ z.y_min < z.y_max /\ z.y_max <= CoordMax

\* the static constraints of the fields of a plan, or of the dict of one
FieldsHold(plan) ==
    /\ \A i \in DOMAIN plan.players :
          /\ ZoneWellFormed(plan.players[i].zone)
          /\ NumberMin <= plan.players[i].number /\ plan.players[i].number <= NumberMax
    /\ \A i \in DOMAIN plan.zones : ZoneWellFormed(plan.zones[i])

\* C1: the formation check reports a goalkeeper issue, with valid=false, for every
\* plan in which the number of players whose position is GK or GOALKEEPER (in any
\* case) is not exactly one: none, or two or more.
C1_GoalkeeperIssueUnlessExactlyOne ==
    (last.op = "validate_formation" /\ GoalkeeperCount(obj.players) # 1)
    => /\ ~last.result.valid
       /\ Reported(last.result, Issue("Team must have a goalkeeper (GK)", 0))

\* C2: every plan record in the plan store, after any sequence of create_plan,
\* save_plan and edits, passes all four validation checks.
C2_StoredPlansPassValidation ==
    \A f \in DOMAIN store : \A c \in Checks :
        run_check(c, DictArg(store[f]), obj, store, fresh + 1, clock).valid

\* C3: each of the four checks, for an input of any type and any store, returns a
\* report {valid, issues, message} and lets no exception escape; valid is true
\* exactly when issues is empty; when the input cannot be resolved the report has
\* valid=false and its issues are the error text alone.
C3_ChecksAlwaysReport ==
    last.op \in Checks
    => /\ IsReport(last.result)
       /\ last.result.valid = (last.result.issues = <<>>)
       /\ LET r == parse_plan(last.arg, obj, store, fresh + 1, clock)
          IN  ~r.ok => ~last.result.valid /\ last.result.issues = <<r.msg>>

\* a check was given a text that resolves to nothing, and reported it
C3_Witness ==
    /\ last.op \in Checks
    /\ last.arg.ty = "str"
    /\ ~parse_plan(last.arg, obj, store, fresh + 1, clock).ok
    /\ IsReport(last.result)
    /\ ~last.result.valid

\* C4: when a player's zone is null, the zone check's report names that player as
\* missing a zone and still lists the out-of-bounds zones of the other players.
C4_MissingZoneReportedWithOthers ==
    (last.op = "validate_zones" /\ \E i \in DOMAIN obj.players : obj.players[i].zone = None)
    => /\ IsReport(last.result)
       /\ \A i \in DOMAIN obj.players :
             IF obj.players[i].zone = None
             THEN Reported(last.result, Issue("Player is missing a zone", obj.players[i].number))
             ELSE AnyBoundOutside(obj.players[i].zone)
                  => Reported(last.result, Issue("Player zone is out of bounds", obj.players[i].number))

\* C5: on a plan whose zones were edited after construction, the zone check
\* returns valid=false with an issue for the player whenever one of the four bounds
\* of its zone lies outside [0,100], and valid=true when every bound of every zone
\* lies in [0,100].
C5_ZoneCheckCoversAllBounds ==
    (last.op = "validate_zones" /\ \A i \in DOMAIN obj.players : obj.players[i].zone # None)
    => /\ last.result.valid = (\A i \in DOMAIN obj.players : ~AnyBoundOutside(obj.players[i].zone))
       /\ \A i \in DOMAIN obj.players :
             AnyBoundOutside(obj.players[i].zone)
             => Reported(last.result, Issue("Player zone is out of bounds", obj.players[i].number))

\* C6: constructing a Zone fails whenever a bound lies outside [0,100], or
\* x_max <= x_min, or y_max <= y_min, and succeeds, with the bounds as given, for
\* every other combination.
C6_ZoneConstruction ==
    last.op = "Zone"
    => /\ last.result.ok =
            ~(\/ AnyBoundOutside(last.arg)
              \/ last.arg.x_max <= last.arg.x_min
              \/ last.arg.y_max <= last.arg.y_min)
       /\ last.result.ok => last.result.val = last.arg

\* the zone x 10..90, y 0..100 was constructed
C6_Witness ==
    /\ last.op = "Zone"
    /\ last.arg = Pitch
    /\ last.result.ok

\* the dict a call built its plan from, when it was given one by value
GivenDict(arg) ==
    IF arg.ty = "dict" THEN arg.val
    ELSE IF arg.ty = "str" /\ arg.val.json # NotJson /\ IsDict(arg.val.json) THEN arg.val.json
    ELSE None

ResolvedHeld(call) == call.op = "_parse_plan" /\ call.arg \in HeldArgs

\* C8 as stated: after save(plan) with the default filename, the Plan object, a dict
\* with the same fields, its JSON text and its plan_id text all resolve to Plans
\* equal to one another in every field.
C8_FormsResolveEqual_AsStated ==
    persisted
    => /\ ResolvedHeld(last) => last.result.ok /\ last.result.val = obj
       /\ ResolvedHeld(last) /\ ResolvedHeld(prev)
          => prev.result.ok /\ prev.result.val = last.result.val

\* C8, amended: the same for a plan whose zones and numbers satisfy the field
\* constraints of the constructor.
C8_FormsResolveEqual ==
    (persisted /\ FieldsHold(obj))
    => /\ ResolvedHeld(last) => last.result.ok /\ last.result.val = obj
       /\ ResolvedHeld(last) /\ ResolvedHeld(prev)
          => prev.result.ok /\ prev.result.val = last.result.val

\* after a save, the plan_id text and then the JSON text of the plan were resolved
C8_Witness ==
    /\ persisted
    /\ FieldsHold(obj)
    /\ ResolvedHeld(prev)
    /\ ResolvedHeld(last)
    /\ prev.arg = StrArg(Text(str_uuid(obj.plan_id), NotJson))
    /\ last.arg = StrArg(json_dumps(model_dump_json(obj)))
    /\ last.result.ok

\* the resolver was called twice in a row with the same argument
SameInputTwice ==
    /\ prev.op = "_parse_plan"
    /\ last.op = "_parse_plan"
    /\ last.arg \in {prev.arg, prev.after}

\* the argument carries its own metadata
CarriesMetadata(arg) == GivenDict(arg) # None => GivenDict(arg).metadata # Missing

\* C9 as stated: resolving the same input twice against an unchanged store yields
\* equal Plans for every accepted input, a dict or JSON text without a valid plan_id
\* included.
C9_ResolveTwiceEqual_AsStated ==
    (SameInputTwice /\ prev.result.ok /\ last.result.ok)
    => prev.result.val = last.result.val

\* C9, amended: the two resolutions succeed or fail together, and two Plans agree in
\* every field but these: a dict or JSON text without a valid plan_id gets another
\* generated plan_id each time, and one without metadata gets the times of each
\* resolution.
C9_ResolveTwiceEqual ==
    SameInputTwice
    => /\ prev.result.ok = last.result.ok
       /\ last.result.ok
          => LET p == prev.result.val
                 q == last.result.val
             IN  /\ [p EXCEPT !.plan_id = q.plan_id, !.metadata = q.metadata] = q
                 /\ IF draws_uuid4(prev.arg) THEN p.plan_id # q.plan_id
                    ELSE p.plan_id = q.plan_id
                 /\ CarriesMetadata(prev.arg) => p.metadata = q.metadata

\* a dict without a valid plan_id was resolved twice, into two plans
C9_Witness ==
    /\ SameInputTwice
    /\ prev.arg.ty = "dict"
    /\ draws_uuid4(prev.arg)
    /\ prev.result.ok
    /\ last.result.ok
    /\ prev.result.val.plan_id # last.result.val.plan_id

\* plan_id is a syntactically valid identifier
IsValidId(v) == v.ty = "UUID" \/ (v.ty = "str" /\ UUID(v.s).ok)

\* C10: resolving a dict whose plan_id is a syntactically valid identifier yields a
\* Plan with that plan_id; resolving one whose plan_id is present but not a valid
\* identifier succeeds, with a generated plan_id and the other fields of the dict.
C10_DictPlanIdCoercion ==
    (/\ last.op = "_parse_plan"
     /\ last.arg.ty = "dict"
     /\ last.arg.val.plan_id # Missing
     /\ FieldsHold(last.arg.val))
    => /\ last.result.ok
       /\ LET d == last.arg.val
              p == last.result.val
          IN  IF IsValidId(d.plan_id)
              THEN p.plan_id = plan_id_field(d.plan_id, 1).val
              ELSE /\ p.plan_id.id > SuppliedIds
                   /\ [p EXCEPT !.plan_id = d.plan_id, !.metadata = d.metadata] = d

\* ----------------------------------------- texts resolved as references (C11, C12)
\* the names the held plan is saved under
RefNames == {NoFilename, <<"plan">>, <<"myplan">>, <<ReprOfUuid[1]>>}

\* texts that are no JSON object: identifiers in their accepted spellings, the
\* repr of a plan, file names with and without an extension, a JSON number
RefTexts ==
    {Text(<<UuidText[1]>>, NotJson), Text(<<UuidUpper[1]>>, NotJson),
     Text(<<UuidPadded[1]>>, NotJson), Text(<<ReprOfUuid[1]>>, NotJson),
     Text(<<UuidText[2]>>, NotJson),
     Text(<<ReprNotUuid>>, NotJson), Text(<<LongReprNotUuid>>, NotJson),
     Text(<<"myplan">>, NotJson), Text(<<"plan", "txt">>, NotJson),
     Text(<<"plan", "json">>, NotJson), Text(<<"nofile">>, NotJson),
     Text(<<"5">>, [jty |-> "number"])}

NextReference ==
    \/ \E f \in RefNames : SavePlan(f)
    \/ EditZone(1, [Pitch EXCEPT !.x_min = CoordMax + 5])
    \/ EditZone(1, Pitch)
    \/ \E t \in RefTexts : Resolve(StrArg(t))

SpecReference == InitResolve /\ [][NextReference]_vars

\* the latest call resolved a text that is no JSON object
ResolvedReference ==
    /\ last.op = "_parse_plan"
    /\ last.arg.ty = "str"
    /\ ~(last.arg.val.json # NotJson /\ IsDict(last.arg.val.json))

\* the record of a file was built into the Plan returned
BuiltFrom(result, record) == result.ok /\ model_dump_json(result.val) = record

\* the call failed with this error text, formatted with this value
FailedWith(result, text, value) ==
    /\ ~result.ok
    /\ result.exc = "ValueError"
    /\ result.msg.text = text
    /\ result.msg.s = value

\* C11 as stated: for a text that is no JSON and from which an identifier is
\* recovered, the resolver returns the Plan built from <identifier>.json whenever
\* that file exists, and fails with an error naming the identifier when it does not.
C11_IdentifierLookup_AsStated ==
    (ResolvedReference /\ plan_uuid_of(last.arg.val.s) # None)
    => LET id == str_uuid(plan_uuid_of(last.arg.val.s))
           file == id \o <<"json">>
       IN  IF file \in DOMAIN store
           THEN BuiltFrom(last.result, store[file])
           ELSE FailedWith(last.result, "Plan file not found for plan_id", id)

\* C11, amended: the resolver consults <identifier>.json alone; it returns the
\* Plan built from the file when the record satisfies the constructor, fails with a
\* load error naming the identifier when the record does not, and fails with a
\* not-found error naming the identifier when the file does not exist, whatever
\* file the filename lookup would have found.
C11_IdentifierLookup ==
    (ResolvedReference /\ plan_uuid_of(last.arg.val.s) # None)
    => LET id == str_uuid(plan_uuid_of(last.arg.val.s))
           file == id \o <<"json">>
       IN  IF file \in DOMAIN store
           THEN IF FieldsHold(store[file])
                THEN BuiltFrom(last.result, store[file])
                ELSE FailedWith(last.result, "Error loading plan file", id)
           ELSE FailedWith(last.result, "Plan file not found for plan_id", id)

\* the repr of a plan was resolved while no <identifier>.json existed but a file
\* named after the text did, and the call failed
C11_Witness ==
    /\ ResolvedReference
    /\ last.arg.val.s = <<ReprOfUuid[1]>>
    /\ <<UuidText[1], "json">> \notin DOMAIN store
    /\ <<ReprOfUuid[1], "json">> \in DOMAIN store
    /\ FailedWith(last.result, "Plan file not found for plan_id", <<UuidText[1]>>)

\* the file name a text stands for: .json after a name without extension, .json in
\* the place of the extension otherwise
ExpectedFile(s) ==
    LET name == strip(s)
    IN  IF Len(name) = 1 THEN name \o <<"json">>
        ELSE SubSeq(name, 1, Len(name) - 1) \o <<"json">>

\* the text holds the plan_id=UUID('...') pattern with this identifier text
Mentions(text, ident) == uuid_match(text).ok /\ uuid_match(text).val = ident

\* C12 as stated: for a text from which no identifier is recovered, the resolver
\* returns the Plan built from the file of that name whenever it exists, and
\* otherwise fails with an error that carries the first 100 characters of the
\* input and names the identifier text of the pattern.
C12_FilenameLookup_AsStated ==
    (ResolvedReference /\ plan_uuid_of(last.arg.val.s) = None)
    => LET s == last.arg.val.s
           file == ExpectedFile(s)
       IN  IF file \in DOMAIN store
           THEN BuiltFrom(last.result, store[file])
           ELSE /\ ~last.result.ok
                /\ last.result.msg.text = "Invalid plan input"
                /\ uuid_match(s).ok => Mentions(last.result.msg.s, uuid_match(s).val)

\* C12, amended: the resolver returns the Plan built from the file when the record
\* satisfies the constructor, fails with a load error naming the file when the
\* record does not, and when the file does not exist fails with an error carrying
\* the first 100 characters of the input, which name the identifier text of the
\* pattern only when the pattern lies within them.
C12_FilenameLookup ==
    (ResolvedReference /\ plan_uuid_of(last.arg.val.s) = None)
    => LET s == last.arg.val.s
           file == ExpectedFile(s)
       IN  IF file \in DOMAIN store
           THEN IF FieldsHold(store[file])
                THEN BuiltFrom(last.result, store[file])
                ELSE FailedWith(last.result, "Error loading plan file", file)
           ELSE /\ FailedWith(last.result, "Invalid plan input",
                              IF s = <<LongReprNotUuid>> THEN <<LongPrefix>> ELSE s)
                /\ s = <<ReprNotUuid>> => Mentions(last.result.msg.s, <<"not-a-real-uuid">>)
                /\ s = <<LongReprNotUuid>> => ~Mentions(last.result.msg.s, <<"not-a-real-uuid">>)

\* the text plan.txt was resolved into the Plan stored in plan.json
C12_Witness ==
    /\ ResolvedReference
    /\ last.arg.val.s = <<"plan", "txt">>
    /\ <<"plan", "json">> \in DOMAIN store
    /\ BuiltFrom(last.result, store[<<"plan", "json">>])

\* ------------------------------------- a plan saved, loaded, resolved, checked
\* the plan create_plan adds to the store next to the held one
LifeDict == PlanDict(Missing, F433, Roster(Full))

\* the files load_plan is asked for: the held plan's, the created plan's, a named one
LifeNames == {<<UuidText[1]>>, str_uuid(uuid4(1)), <<"myplan">>}

\* the identifiers of the held plan and of the created one, as texts
LifeIds == {StrArg(Text(<<UuidText[1]>>, NotJson)), StrArg(Text(str_uuid(uuid4(1)), NotJson))}

\* the files the held plan is saved to
SavedNames == {<<UuidText[1]>>, <<"myplan">>}

\* saves at different times, and loads
NextLife ==
    \/ Tick
    \/ \E f \in Filenames : SavePlan(f)
    \/ \E f \in SavedNames : LoadPlan(f)
    \/ EditZone(1, None)

SpecLife == InitResolve /\ [][NextLife]_vars

\* the plan_id through every operation, and the checks between saves
NextUse ==
    \/ CreatePlan(LifeDict, NoFilename)
    \/ \E f \in Filenames : SavePlan(f)
    \/ \E f \in LifeNames : LoadPlan(f)
    \/ \E c \in Checks : Validate(c, PlanArg)
    \/ \E a \in LifeIds : Resolve(a)

SpecUse == InitResolve /\ [][NextUse]_vars

\* load_plan called right after save_plan(plan, filename), on the file it wrote
LoadOfSaved(filename) ==
    load_plan(store', IF filename = NoFilename THEN str_uuid(obj.plan_id) ELSE filename,
              fresh + 1, clock)

C14_PlanIdKept ==
    [][/\ (last'.op # "load_plan" /\ obj # None) => obj'.plan_id = obj.plan_id
       /\ \A f \in Filenames :
             SavePlan(f) => store'[save_filename(obj, f)].plan_id = Str(str_uuid(obj.plan_id))
       /\ \A f \in LifeNames :
             (LoadPlan(f) /\ last'.result.ok)
             => /\ Str(str_uuid(obj'.plan_id)) = store[store_filename(f)].plan_id
                /\ store' = store
       /\ \A a \in LifeIds :
             (Resolve(a) /\ last'.result.ok)
             => last'.result.val.plan_id = plan_uuid_of(a.val.s)
       /\ (CreatePlan(LifeDict, NoFilename) /\ last'.result.ok)
          => store'[last'.result.val].plan_id = Str(str_uuid(uuid4(fresh + 1)))]_vars

\* the plan create_plan stored under a generated plan_id was resolved by that
\* identifier while the caller held another plan
C14_Witness ==
    /\ last.op = "_parse_plan"
    /\ last.arg = StrArg(Text(str_uuid(uuid4(1)), NotJson))
    /\ last.result.ok
    /\ last.result.val.plan_id = uuid4(1)
    /\ obj.plan_id = UuidObj(1)
    /\ <<UuidText[1], "json">> \in DOMAIN store

\* C15: save_plan sets metadata.modified_at of the plan to the current time and
\* changes no other field; the record it writes is the plan with the refreshed
\* time; load_plan returns the modified_at of the record and leaves the store
\* alone.
C15_SaveRefreshesModifiedAt ==
    [][/\ \A f \in Filenames :
             SavePlan(f)
             => /\ obj' = [obj EXCEPT !.metadata.modified_at = clock]
                /\ store'[save_filename(obj, f)] = model_dump_json(obj')
                /\ store'[save_filename(obj, f)].metadata.modified_at = clock
       /\ \A f \in SavedNames :
             (LoadPlan(f) /\ last'.result.ok)
             => /\ obj'.metadata.modified_at = store[store_filename(f)].metadata.modified_at
                /\ store' = store]_vars

\* a plan created at one time was saved at a later one
C15_Witness ==
    /\ last.op = "save_plan"
    /\ obj.metadata.modified_at = clock
    /\ obj.metadata.created_at < clock
    /\ store[last.result.val] = model_dump_json(obj)

\* C16: a check called with the Plan object changes no field of the plan and no
\* record of the store.
C16_ChecksArePure ==
    [][\A c \in Checks : Validate(c, PlanArg) => (obj' = obj /\ store' = store)]_vars

\* a check ran on a held plan that has no record in the store, next to the
\* record of another plan, and left both as they were
C16_Witness ==
    /\ last.op \in Checks
    /\ last.arg = PlanArg
    /\ last.result.valid
    /\ save_filename(obj, NoFilename) \notin DOMAIN store
    /\ store # <<>>

\* ---------------------------------------------- a check called twice in a row
NextTwice ==
    \/ Tick
    \/ NextValidate

SpecTwice == InitResolve /\ [][NextTwice]_vars

\* the same check ran twice in a row on the same argument
CheckedTwice ==
    /\ prev.op \in Checks
    /\ last.op = prev.op
    /\ last.arg \in {prev.arg, prev.after}

\* C17: a check run twice in a row on the same plan, given in any form, with no
\* edit and no change of the store in between, returns two identical reports.
C17_SameReportTwice ==
    CheckedTwice => last.result = prev.result

\* a dict without plan_id went through the formation check twice after time had
\* passed, each call generating another plan_id, with the same report
C17_Witness ==
    /\ CheckedTwice
    /\ last.op = "validate_formation"
    /\ prev.arg.ty = "dict"
    /\ draws_uuid4(prev.arg)
    /\ prev.result.valid
    /\ last.result = prev.result
    /\ clock > 0

\* ------------------------------------ two calls at once on one argument (C18)
\* Each call runs _parse_plan on the argument, and a check wraps what it returns.
\* A Plan object and a text are read only. A dict is the caller's object: lines
\* 51-57 test, read, assign and delete its plan_id key in separate steps, and the
\* other call may run between any two of them.
Threads == {1, 2}

RaceOps == {"_parse_plan", "validate_formation"}

RaceDicts ==
    {PlanDict(pid, F433, Roster(Full)) :
        pid \in {Missing, FirstId, Str(<<"433-standard-001">>), IntVal(42)}}

RaceArgs ==
    {PlanArg, StrArg(Text(<<UuidText[1]>>, NotJson)), StrArg(Text(<<"nofile">>, NotJson))}
    \cup {DictArg(d) : d \in RaceDicts}

\* what the tool returns once _parse_plan has returned or raised r
finish(op, r) ==
    IF op = "_parse_plan" THEN r
    ELSE IF ~r.ok THEN ErrorReport(r)
    ELSE run_check(op, PlanArg, r.val, store, 1, clock)

\* what the call returns when it runs alone on the argument
alone(op, arg, fid) ==
    IF op = "_parse_plan" THEN parse_plan(arg, obj, store, fid, clock)
    ELSE run_check(op, arg, obj, store, fid, clock)

KeyError == Raise("KeyError", Msg("'plan_id'", <<>>, 0))

\* the call of thread t returns or raises r
Return(t, r) ==
    race' = [race EXCEPT !.pc[t] = "done", !.ret[t] = finish(race.op[t], r)]

Goto(t, line) == race' = [race EXCEPT !.pc[t] = line]

\* lines 47-48 and 58-142: a Plan object or a text, which no call modifies
ParseImmutable(t) ==
    /\ race.pc[t] = "line47"
    /\ race.arg.ty # "dict"
    /\ Return(t, parse_plan(race.arg, obj, store, t, clock))
    /\ UNCHANGED <<store, obj, clock, fresh, last, prev, persisted>>

\* line 51, 'plan_id' in plan
TestHasPlanId(t) ==
    /\ race.pc[t] = "line47"
    /\ race.arg.ty = "dict"
    /\ Goto(t, IF race.dict.plan_id # Missing THEN "line51" ELSE "line57")
    /\ UNCHANGED <<store, obj, clock, fresh, last, prev, persisted>>

\* line 51, isinstance(plan['plan_id'], str)
TestIsStr(t) ==
    /\ race.pc[t] = "line51"
    /\ IF race.dict.plan_id = Missing THEN Return(t, KeyError)
       ELSE Goto(t, IF race.dict.plan_id.ty = "str" THEN "line53" ELSE "line57")
    /\ UNCHANGED <<store, obj, clock, fresh, last, prev, persisted>>

\* line 53, UUID(plan['plan_id']): KeyError on a key that is gone and
\* AttributeError on a value that is a UUID already are not caught by line 54
ConvertPlanId(t) ==
    /\ race.pc[t] = "line53"
    /\ LET v == race.dict.plan_id
       IN  IF v = Missing THEN Return(t, KeyError)
           ELSE IF v.ty # "str"
           THEN Return(t, Raise("AttributeError", Msg("object has no attribute 'replace'", <<v.ty>>, 0)))
           ELSE IF UUID(v.s).ok
           THEN race' = [race EXCEPT !.pc[t] = "line53store", !.loc[t] = UUID(v.s).val]
           ELSE Goto(t, "line56")
    /\ UNCHANGED <<store, obj, clock, fresh, last, prev, persisted>>

\* line 53, plan['plan_id'] = ...
AssignPlanId(t) ==
    /\ race.pc[t] = "line53store"
    /\ race' = [race EXCEPT !.pc[t] = "line57", !.dict.plan_id = race.loc[t]]
    /\ UNCHANGED <<store, obj, clock, fresh, last, prev, persisted>>

\* line 56, del plan['plan_id'], inside the except clause
DeletePlanId(t) ==
    /\ race.pc[t] = "line56"
    /\ IF race.dict.plan_id = Missing THEN Return(t, KeyError)
       ELSE race' = [race EXCEPT !.pc[t] = "line57", !.dict.plan_id = Missing]
    /\ UNCHANGED <<store, obj, clock, fresh, last, prev, persisted>>

\* line 57, TacticalPlan(**plan)
ConstructPlan(t) ==
    /\ race.pc[t] = "line57"
    /\ Return(t, TacticalPlan(race.dict, t, clock))
    /\ UNCHANGED <<store, obj, clock, fresh, last, prev, persisted>>

\* the held plan is in the store, and two calls start on one argument
InitRace ==
    /\ obj \in Constructed({PlanDict(FirstId, F433, Roster(Full))})
    /\ store = written(<<>>, obj, NoFilename, 0)
    /\ clock = 0
    /\ fresh = 0
    /\ last = NoCall
    /\ prev = NoCall
    /\ persisted = TRUE
    /\ \E arg \in RaceArgs, ops \in [Threads -> RaceOps] :
          race = [arg |-> arg,
                  dict |-> IF arg.ty = "dict" THEN arg.val ELSE None,
                  op |-> ops,
                  pc |-> [t \in Threads |-> "line47"],
                  loc |-> [t \in Threads |-> None],
                  ret |-> [t \in Threads |-> None]]

NextRace ==
    \E t \in Threads :
        \/ ParseImmutable(t)
        \/ TestHasPlanId(t)
        \/ TestIsStr(t)
        \/ ConvertPlanId(t)
        \/ AssignPlanId(t)
        \/ DeletePlanId(t)
        \/ ConstructPlan(t)

SpecRace == InitRace /\ [][NextRace]_vars

\* C18: in every interleaving of two calls on the same Plan object, dict or text,
\* with an unchanged store, each call returns what it returns when it runs alone.
C18_ConcurrentCallsIndependent ==
    \A t \in Threads :
        race.pc[t] = "done" => race.ret[t] = alone(race.op[t], race.arg, t)

\* ------------------------------------- TacticalPlan.validate_formation (C19)
\* formation tokens: the seven of the table, and others
FormationTokens ==
    standard_formations
    \cup {F333, F433NoHyphen, <<>>, F433 \o <<" ">>, <<"4", "-", "3", "-", "3", "-", "0">>}

RosterSizes == 0..Len(Shirt)

\* plan.validate_formation() on a plan with this formation and this many players
SizeCheck(formation, n) ==
    /\ last' = Call("TacticalPlan.validate_formation",
                    [formation |-> formation, size |-> n],
                    [formation |-> formation, size |-> n],
                    Ok(plan_validate_formation(
                          TacticalPlan(PlanDict(FirstId, formation, Roster(n)), 1, 0).val)))
    /\ prev' = NoCall
    /\ UNCHANGED <<race, store, obj, clock, fresh, persisted>>

NextFormation == \E f \in FormationTokens, n \in RosterSizes : SizeCheck(f, n)

SpecFormation == Init /\ [][NextFormation]_vars

\* C19: plan.validate_formation() is true exactly for 11 players when the formation
\* is one of 4-3-3, 4-4-2, 4-2-3-1, 3-5-2, 3-4-3, 5-3-2, 4-5-1, and true for every
\* roster size when the formation is any other token.
C19_FormationSizeConsistent ==
    last.op = "TacticalPlan.validate_formation"
    => last.result.val =
          IF last.arg.formation \in {F433, F442, F4231, F352, F343, F532, F451}
          THEN last.arg.size = Full
          ELSE TRUE

\* 3-3-3 with 9 players was found consistent
C19_Witness ==
    /\ last.op = "TacticalPlan.validate_formation"
    /\ last.arg = [formation |-> F333, size |-> Full - 2]
    /\ last.result.val

\* C20: the issues of the formation check are one entry for each violated rule
\* among (a) the formation holds no hyphen, (b) the roster size is inconsistent
\* with the formation, (c) the players with a goalkeeper code are not exactly one,
\* in that order, and valid is true exactly when none is violated.
C20_FormationIssues ==
    (last.op = "validate_formation" /\ last.arg = PlanArg)
    => LET a == "-" \notin Range(obj.formation)
           b == obj.formation \in standard_formations /\ Len(obj.players) # Full
           c == GoalkeeperCount(obj.players) # 1
           expected ==
               (IF a THEN <<Issue("Formation must be in format like '4-3-3'", 0)>> ELSE <<>>)
               \o (IF b THEN <<[Issue("Number of players doesn't match expected for formation",
                                     Len(obj.players)) EXCEPT !.f = obj.formation]>>
                   ELSE <<>>)
               \o (IF c THEN <<Issue("Team must have a goalkeeper (GK)", 0)>> ELSE <<>>)
       IN  /\ last.result.issues = expected
           /\ last.result.valid = ~(a \/ b \/ c)

\* --------------------------------- the roster of the held plan (C21, C22, C26, C28)
\* an edit of the held plan: player i is given another position code by assignment
SetPosition(i, code) ==
    /\ obj # None
    /\ i \in DOMAIN obj.players
    /\ obj' = [obj EXCEPT !.players[i].position = code]
    /\ last' = NoCall
    /\ prev' = NoCall
    /\ persisted' = FALSE
    /\ UNCHANGED <<race, store, clock, fresh>>

\* an edit of the held plan: player i is given another jersey number by assignment
SetNumber(i, number) ==
    /\ obj # None
    /\ i \in DOMAIN obj.players
    /\ obj' = [obj EXCEPT !.players[i].number = number]
    /\ last' = NoCall
    /\ prev' = NoCall
    /\ persisted' = FALSE
    /\ UNCHANGED <<race, store, clock, fresh>>

\* plan.get_player_by_number(number) on the held plan
GetPlayer(number) ==
    /\ obj # None
    /\ last' = Call("get_player_by_number", IntVal(number), IntVal(number),
                    Ok(get_player_by_number(obj, number)))
    /\ prev' = NoCall
    /\ UNCHANGED <<race, store, obj, clock, fresh, persisted>>

\* position codes an edit assigns: recognized ones in several cases, unknown ones,
\* and the long form of the goalkeeper code
PositionCodes == {"GK", "gk", "cb", "SW", "goalkeeper", "GOALKEEPER"}

\* jersey numbers an edit assigns, and numbers looked up
JerseyNumbers == {1, 10}
LookedUp == JerseyNumbers \cup {2, 50}

\* rosters of no player, two, four and eleven
RosterLengths == {0, 2, 4, Full}

InitRoster ==
    /\ store = <<>>
    /\ obj \in Constructed({PlanDict(FirstId, F433, Roster(n)) : n \in RosterLengths})
    /\ clock = 0
    /\ fresh = 0
    /\ last = NoCall
    /\ prev = NoCall
    /\ persisted = FALSE
    /\ race = Idle

NextRoster ==
    \/ \E i \in 1..2, code \in PositionCodes : SetPosition(i, code)
    \/ \E i \in 1..4, n \in JerseyNumbers : SetNumber(i, n)
    \/ \E c \in {"validate_formation", "validate_player_positions"} : Validate(c, PlanArg)
    \/ \E n \in LookedUp : GetPlayer(n)

SpecRoster == InitRoster /\ [][NextRoster]_vars

\* a position code without its case
FoldCase(code) ==
    CASE code \in {"GK", "gk", "Gk"} -> "gk"
      [] code \in {"CB", "cb"} -> "cb"
      [] code \in {"GOALKEEPER", "goalkeeper", "Goalkeeper"} -> "goalkeeper"
      [] OTHER -> code

Vocabulary == {"GK", "CB", "LB", "RB", "LWB", "RWB", "CDM", "CM", "CAM", "LM", "RM",
               "LW", "RW", "ST", "CF"}

\* the code is one of the vocabulary, compared without case
Recognized(code) == \E v \in Vocabulary : FoldCase(code) = FoldCase(v)

Unrecognized(players) == {i \in DOMAIN players : ~Recognized(players[i].position)}

\* the jersey numbers two or more players carry
SharedNumbers(players) ==
    {players[i].number : i \in {j \in DOMAIN players :
        \E k \in DOMAIN players : k # j /\ players[k].number = players[j].number}}

\* the latest call was the position check of the held plan
PositionsChecked == last.op = "validate_player_positions" /\ last.arg = PlanArg

\* C21: the position check returns valid=true exactly when every player's position,
\* compared without case, is one of GK, CB, LB, RB, LWB, RWB, CDM, CM, CAM, LM, RM,
\* LW, RW, ST, CF and no two players share a jersey number; every player with an
\* unrecognized position has an issue of its own.
C21_PositionCheck ==
    PositionsChecked
    => /\ last.result.valid =
            (Unrecognized(obj.players) = {} /\ SharedNumbers(obj.players) = {})
       /\ \A i \in Unrecognized(obj.players) :
             Reported(last.result,
                      [Issue("Player has invalid position", obj.players[i].number)
                          EXCEPT !.s = <<obj.players[i].position>>])
       /\ Cardinality({k \in DOMAIN last.result.issues :
                          last.result.issues[k].text = "Player has invalid position"})
          = Cardinality(Unrecognized(obj.players))

\* a roster of eleven with lower-case codes passed the position check
C21_Witness ==
    /\ PositionsChecked
    /\ Len(obj.players) = Full
    /\ obj.players[1].position = "gk"
    /\ obj.players[2].position = "cb"
    /\ last.result.valid

\* two players with unrecognized codes were reported, each with its issue
C21_WitnessInvalid ==
    /\ PositionsChecked
    /\ Unrecognized(obj.players) = {1, 2}
    /\ SharedNumbers(obj.players) = {}
    /\ Len(last.result.issues) = 2

\* C22: for every jersey number that two or more players carry, the position check
\* returns valid=false with an issue that mentions the number, in a roster of any
\* size and whatever the positions; every such number is mentioned.
C22_DuplicatesReported ==
    PositionsChecked
    => \A n \in SharedNumbers(obj.players) :
          /\ ~last.result.valid
          /\ \E k \in DOMAIN last.result.issues : n \in Range(last.result.issues[k].nums)

\* two jersey numbers were each carried by two players, and both were reported
C22_Witness ==
    /\ PositionsChecked
    /\ SharedNumbers(obj.players) = {1, 10}
    /\ Unrecognized(obj.players) = {}
    /\ ~last.result.valid
    /\ \E k \in DOMAIN last.result.issues :
          {1, 10} \subseteq Range(last.result.issues[k].nums)

\* the latest call looked a jersey number up in the held plan
LookedUpNumber == last.op = "get_player_by_number"

Carriers(players, number) == {i \in DOMAIN players : players[i].number = number}

\* C26: get_player_by_number(n) returns, without raising, the earliest player of
\* the roster whose jersey number is n when there is one and the not-found value
\* when there is none, and it leaves the plan as it was.
C26_PlayerLookup ==
    [][\A n \in LookedUp :
          GetPlayer(n)
          => LET carriers == Carriers(obj.players, n)
                 r == last'.result
             IN  /\ r.ok
                 /\ IF carriers = {}
                    THEN r.val = None
                    ELSE \E i \in carriers :
                            /\ \A j \in carriers : i <= j
                            /\ r.val = obj.players[i]
                 /\ obj' = obj]_vars

\* number 1 is carried by the first two players, who differ, and the first was
\* returned
C26_Witness ==
    /\ LookedUpNumber
    /\ last.arg.n = 1
    /\ {1, 2} \subseteq Carriers(obj.players, 1)
    /\ obj.players[1] # obj.players[2]
    /\ last.result.val = obj.players[1]

\* no player carries number 50, and the lookup returned the not-found value
C26_WitnessAbsent ==
    /\ LookedUpNumber
    /\ Carriers(obj.players, last.arg.n) = {}
    /\ last.result = Ok(None)

\* the report of a check of the held plan: the one the latest call returned when
\* it was that check, the one the check returns otherwise
ReportOf(check) ==
    IF last.op = check /\ last.arg = PlanArg THEN last.result
    ELSE run_check(check, PlanArg, obj, store, fresh + 1, clock)

\* C28: a player whose position is GOALKEEPER, in any case, satisfies the
\* goalkeeper rule of the formation check and is reported as an invalid position by
\* the position check; every plan that passes both checks has a player whose
\* position, upper-cased, is GK.
C28_GoalkeeperLongForm ==
    (last.op \in {"validate_formation", "validate_player_positions"} /\ last.arg = PlanArg)
    => LET f == ReportOf("validate_formation")
           p == ReportOf("validate_player_positions")
           players == obj.players
       IN  /\ \A i \in DOMAIN players :
                 FoldCase(players[i].position) = "goalkeeper"
                 => /\ ~Reported(f, Issue("Team must have a goalkeeper (GK)", 0))
                    /\ ~p.valid
                    /\ Reported(p, [Issue("Player has invalid position", players[i].number)
                                       EXCEPT !.s = <<players[i].position>>])
           /\ (f.valid /\ p.valid)
              => \E i \in DOMAIN players : FoldCase(players[i].position) = "gk"

\* the only goalkeeper of an eleven is spelled GOALKEEPER: the formation check
\* passed the plan
C28_Witness ==
    /\ last.op = "validate_formation"
    /\ last.arg = PlanArg
    /\ last.result.valid
    /\ obj.players[1].position = "GOALKEEPER"
    /\ \A i \in DOMAIN obj.players : i # 1 => FoldCase(obj.players[i].position) \notin {"gk", "goalkeeper"}
    /\ ~validate_player_positions(PlanArg, obj, store, fresh + 1, clock).valid

\* ------------------------------- phases and pressing triggers of the plan (C23)
\* an edit of the held plan: player i is given another phase map by assignment
SetPhases(i, phases) ==
    /\ obj # None
    /\ i \in DOMAIN obj.players
    /\ obj' = [obj EXCEPT !.players[i].phases = phases]
    /\ last' = NoCall
    /\ prev' = NoCall
    /\ persisted' = FALSE
    /\ UNCHANGED <<race, store, clock, fresh>>

\* an edit of the held plan: the pressing triggers are replaced
SetTriggers(triggers) ==
    /\ obj # None
    /\ obj' = [obj EXCEPT !.pressing_triggers = triggers]
    /\ last' = NoCall
    /\ prev' = NoCall
    /\ persisted' = FALSE
    /\ UNCHANGED <<race, store, clock, fresh>>

\* phase maps by their keys: empty, partial, complete, and with a further phase
PhaseMaps ==
    {{}, {"attack"}, {"defense", "transition"}, AllPhases, AllPhases \cup {"set_piece"},
     {"set_piece"}}

TriggerLists == {<<>>, <<"opponent back pass">>, <<"opponent back pass", "loose touch">>}

NextPhases ==
    \/ \E i \in 1..3, m \in PhaseMaps : SetPhases(i, m)
    \/ \E t \in TriggerLists : SetTriggers(t)
    \/ Validate("check_tactical_consistency", PlanArg)

SpecPhases == InitRoster /\ [][NextPhases]_vars

ConsistencyChecked == last.op = "check_tactical_consistency" /\ last.arg = PlanArg

\* the phases among attack, defense and transition that the player has none of
LackingPhases(player) == {"attack", "defense", "transition"} \ player.phases

\* C23: the consistency check returns valid=true exactly when every player has a
\* non-empty phase map with attack, defense and transition and the plan has a
\* pressing trigger; the report itemizes every player without phases, every phase a
\* player lacks and the missing pressing triggers together.
C23_ConsistencyCheck ==
    ConsistencyChecked
    => LET players == obj.players
       IN  /\ last.result.valid =
                 /\ \A i \in DOMAIN players :
                       players[i].phases # {} /\ LackingPhases(players[i]) = {}
                 /\ obj.pressing_triggers # <<>>
           /\ \A i \in DOMAIN players :
                 IF players[i].phases = {}
                 THEN Reported(last.result,
                               Issue("Player missing phase instructions", players[i].number))
                 ELSE \A ph \in LackingPhases(players[i]) :
                         Reported(last.result,
                                  [Issue("Player missing phase instructions for", players[i].number)
                                      EXCEPT !.s = <<ph>>])
           /\ obj.pressing_triggers = <<>>
              => Reported(last.result, Issue("No pressing triggers defined", 0))

\* a player without phases, a player with attack alone and no pressing trigger
\* were itemized in one report of four issues
C23_Witness ==
    /\ ConsistencyChecked
    /\ Len(obj.players) = Full
    /\ obj.players[1].phases = {}
    /\ obj.players[2].phases = {"attack"}
    /\ obj.players[3].phases = AllPhases \cup {"set_piece"}
    /\ obj.pressing_triggers = <<>>
    /\ Len(last.result.issues) = 4

\* every player has the three phases and the plan has a trigger: valid
C23_WitnessValid ==
    /\ ConsistencyChecked
    /\ Len(obj.players) = Full
    /\ obj.players[3].phases = AllPhases \cup {"set_piece"}
    /\ Len(obj.pressing_triggers) = 2
    /\ last.result.valid

\* ------------------------------------ the four checks on one plan (C24)
\* plans of eleven and of ten players in every formation of the table and in one
\* that is not in it
ScenarioDicts ==
    {PlanDict(FirstId, f, Roster(n)) : f \in standard_formations \cup {F333}, n \in {Full, Full - 1}}

InitScenario ==
    /\ store = <<>>
    /\ obj \in Constructed(ScenarioDicts)
    /\ clock = 0
    /\ fresh = 0
    /\ last = NoCall
    /\ prev = NoCall
    /\ persisted = FALSE
    /\ race = Idle

\* zones an edit assigns: in range, in range with its bounds inverted, out of range
ScenarioZones ==
    {Pitch, [Pitch EXCEPT !.x_min = 90, !.x_max = 10], [Pitch EXCEPT !.y_max = CoordMax + 5]}

NextScenario ==
    \/ \E code \in {"gk", "CB"} : SetPosition(1, code)
    \/ \E code \in {"GK", "SW", "cb"} : SetPosition(2, code)
    \/ SetNumber(2, 1)
    \/ \E m \in {{"attack"}, AllPhases} : SetPhases(2, m)
    \/ \E z \in ScenarioZones : EditZone(2, z)
    \/ \E t \in {<<>>, <<"opponent back pass">>} : SetTriggers(t)
    \/ \E c \in Checks : Validate(c, PlanArg)

SpecScenario == InitScenario /\ [][NextScenario]_vars

\* a formation of the table, eleven players, one GK, distinct numbers, recognized
\* positions, zones within the field, three phases each, a pressing trigger
WellFormedPlan(plan) ==
    /\ plan.formation \in {F433, F442, F4231, F352, F343, F532, F451}
    /\ Len(plan.players) = 11
    /\ Cardinality({i \in DOMAIN plan.players : FoldCase(plan.players[i].position) = "gk"}) = 1
    /\ SharedNumbers(plan.players) = {}
    /\ Unrecognized(plan.players) = {}
    /\ \A i \in DOMAIN plan.players :
          /\ plan.players[i].zone # None
          /\ ~AnyBoundOutside(plan.players[i].zone)
          /\ LackingPhases(plan.players[i]) = {}
    /\ plan.pressing_triggers # <<>>

\* C24: a plan with a formation of the table, 11 players of which exactly one is a
\* GK, distinct jersey numbers, recognized position codes, zones within [0,100],
\* the three phases for every player and a pressing trigger is reported valid=true
\* with no issue by each of the four checks.
C24_WellFormedPlanPasses ==
    (last.op \in Checks /\ last.arg = PlanArg /\ WellFormedPlan(obj))
    => /\ last.result.valid
       /\ last.result.issues = <<>>

\* a 4-2-3-1 plan with its goalkeeper spelled gk and a zone within the field whose
\* bounds are inverted passed the zone check
C24_Witness ==
    /\ last.op = "validate_zones"
    /\ last.arg = PlanArg
    /\ WellFormedPlan(obj)
    /\ obj.formation = F4231
    /\ obj.players[1].position = "gk"
    /\ obj.players[2].zone.x_min > obj.players[2].zone.x_max
    /\ last.result.valid

\* the plan of the scenario passed the formation check
C24_WitnessFormation ==
    /\ last.op = "validate_formation"
    /\ last.arg = PlanArg
    /\ WellFormedPlan(obj)
    /\ obj.formation = F433
    /\ last.result.valid

\* --------------------------------------------- the store and its listing (C25)
\* TacticalPlanFileTools.list_plans()
ListPlans ==
    /\ last' = Call("list_plans", NameArg(NoFilename), NameArg(NoFilename), Ok(list_plans(store)))
    /\ prev' = NoCall
    /\ UNCHANGED <<race, store, obj, clock, fresh, persisted>>

\* the dicts create_plan is given: one it stores and one the constructor rejects
ListedDicts ==
    {PlanDict(Missing, F433, Roster(Full)),
     PlanDict(Str(<<"433-standard-001">>), F433, [Roster(Full) EXCEPT ![2].zone.x_max = 10])}

\* the names plans are saved under: the default one, one without and one with the extension
SaveNames == {NoFilename, <<"myplan">>, <<"plan", "json">>}

\* the names load_plan and delete_plan are asked for
AskedNames == {str_uuid(uuid4(1)), <<"myplan">>, <<"plan">>, <<"plan", "json">>, <<"absent">>}

NextStore ==
    \/ \E d \in ListedDicts, f \in SaveNames : CreatePlan(d, f)
    \/ \E f \in SaveNames : SavePlan(f)
    \/ \E f \in AskedNames : LoadPlan(f)
    \/ \E f \in AskedNames : DeletePlan(f)
    \/ EditZone(1, None)
    \/ ListPlans

SpecStore == Init /\ [][NextStore]_vars

\* a file name without the .json extension
BareName(filename) ==
    IF Len(filename) >= 2 /\ filename[Len(filename)] = "json"
    THEN SubSeq(filename, 1, Len(filename) - 1)
    ELSE filename

\* the name a plan is saved under
SavedName(plan_id, filename) ==
    IF filename = NoFilename THEN <<UuidText[plan_id.id]>> ELSE BareName(filename)

NotFound(result) == ~result.ok /\ result.exc = "FileNotFoundError"

\* what save, create, delete and list do to the listing: it starts empty, a save or
\* a successful create adds the name saved under, a failed create adds nothing, a
\* delete of a listed name removes it, a delete of any other name fails with a
\* not-found error and leaves the store as it was, list() returns the listing
ListingFollowsStore ==
    /\ store = <<>> => list_plans(store) = {}
    /\ \A f \in SaveNames :
          (last'.op = "save_plan" /\ SavePlan(f))
          => list_plans(store') = list_plans(store) \cup {SavedName(obj.plan_id, f)}
    /\ \A d \in ListedDicts, f \in SaveNames :
          (last'.op = "create_plan" /\ CreatePlan(d, f))
          => IF last'.result.ok
             THEN \E id \in {UuidObj(n) : n \in DOMAIN UuidText} :
                     /\ d.plan_id # Missing => d.plan_id = Str(<<UuidText[id.id]>>)
                     /\ list_plans(store') = list_plans(store) \cup {SavedName(id, f)}
             ELSE store' = store
    /\ \A f \in AskedNames :
          (last'.op = "delete_plan" /\ DeletePlan(f))
          => IF BareName(f) \in list_plans(store)
             THEN last'.result.ok /\ list_plans(store') = list_plans(store) \ {BareName(f)}
             ELSE NotFound(last'.result) /\ store' = store
    /\ (last'.op = "list_plans" /\ ListPlans)
       => last'.result = Ok(list_plans(store)) /\ store' = store

\* C25 as stated: list() returns the names, without .json, of the records saved and
\* not since deleted; load(f) returns a Plan exactly when f names one of them and
\* fails with a not-found error otherwise; delete(f) of an absent record fails with
\* a not-found error and leaves the store unchanged.
C25_StoreListing_AsStated ==
    [][/\ ListingFollowsStore
       /\ \A f \in AskedNames :
             (last'.op = "load_plan" /\ LoadPlan(f))
             => /\ last'.result.ok = (BareName(f) \in list_plans(store))
                /\ ~last'.result.ok => NotFound(last'.result)]_vars

\* C25, amended: the same, but load(f) returns the Plan of the record only when the
\* record satisfies the constraints of the constructor; it fails with a validation
\* error when the record does not, and with a not-found error when f names no
\* record; a load never changes the store.
C25_StoreListing ==
    [][/\ ListingFollowsStore
       /\ \A f \in AskedNames :
             (last'.op = "load_plan" /\ LoadPlan(f))
             => /\ store' = store
                /\ IF BareName(f) \notin list_plans(store) THEN NotFound(last'.result)
                   ELSE LET record == store[BareName(f) \o <<"json">>]
                        IN  IF FieldsHold(record)
                            THEN BuiltFrom(last'.result, record)
                            ELSE ~last'.result.ok /\ last'.result.exc = "ValidationError"]_vars

\* the plan created under its plan_id was loaded, saved as plan.json, its first
\* record deleted, and the listing is plan alone
C25_Witness ==
    /\ last.op = "list_plans"
    /\ last.result.val = {<<"plan">>}
    /\ DOMAIN store = {<<"plan", "json">>}
    /\ obj # None
    /\ obj.plan_id = uuid4(1)

\* a delete of a name that is not in the store failed and left a store of two
\* records alone
C25_WitnessDeleteAbsent ==
    /\ last.op = "delete_plan"
    /\ NotFound(last.result)
    /\ Cardinality(DOMAIN store) = 2

\* -------------------------------------- texts that are JSON documents (C27)
\* JSON texts: a number, null, a list, a string, an object the constructor accepts
\* and one it rejects
JsonTexts ==
    {Text(<<"5">>, [jty |-> "number"]),
     Text(<<"null">>, [jty |-> "null"]),
     Text(<<"[]">>, [jty |-> "list"]),
     Text(<<"\"myplan\"">>, [jty |-> "string"]),
     json_dumps(PlanDict(Missing, F433, Roster(Full))),
     json_dumps(PlanDict(FirstId, F433, [Roster(Full) EXCEPT ![2].number = NumberMax + 1]))}

\* the names the held plan is saved under: the default one, and names that are
\* JSON documents themselves
JsonNames == {NoFilename, <<"5">>, <<"null">>}

NextJson ==
    \/ Tick
    \/ \E f \in JsonNames : SavePlan(f)
    \/ \E t \in JsonTexts : Resolve(StrArg(t))

SpecJson == InitResolve /\ [][NextJson]_vars

\* the latest call resolved a text that is a JSON document
ResolvedJson ==
    /\ last.op = "_parse_plan"
    /\ last.arg.ty = "str"
    /\ last.arg.val.json # NotJson

\* the errors of the identifier lookup and of the filename lookup
LookupErrors == {"Plan file not found for plan_id", "Error loading plan file", "Invalid plan input"}

\* C27: when the text parses as JSON (an object, a number, a list, a string or
\* null), the resolver constructs the Plan from the parsed value or fails; it never
\* goes on to the identifier lookup or the filename lookup: a Plan it returns is
\* built from the parsed object, and an error it raises is not one of the lookups.
C27_JsonIsByValue ==
    ResolvedJson
    => LET v == last.arg.val.json
       IN  IF last.result.ok
           THEN /\ IsDict(v)
                /\ last.result.val.players = v.players
                /\ last.result.val.formation = v.formation
                /\ v.plan_id = Missing => last.result.val.plan_id.id > SuppliedIds
           ELSE last.result.msg.text \notin LookupErrors

\* ------------------------------------------ the dict a caller hands over (C29)
\* the held plan as a dict, whose plan_id is a UUID object, next to the dicts of
\* ResolveDicts, whose plan_id is absent, a text or a number
NextDict ==
    \/ Tick
    \/ \E d \in ResolveDicts : Resolve(DictArg(d))
    \/ Resolve(DictArg(obj))
    \/ \E c \in Checks, d \in ResolveDicts : Validate(c, DictArg(d))

SpecDict == InitResolve /\ [][NextDict]_vars

\* the text is an identifier as UUID() reads it, and this is the identifier
Denotes(s, id) ==
    /\ id.ty = "UUID"
    /\ id.id \in DOMAIN UuidText
    /\ s \in {<<UuidText[id.id]>>, <<UuidUpper[id.id]>>}

\* C29: a check or the resolver given a dict leaves every key of it but plan_id as
\* it was; a plan_id that is a text is replaced by the identifier it denotes, or
\* removed when it denotes none; a dict whose plan_id is absent or no text is not
\* altered at all, whether the call succeeds or fails.
C29_DictFrame ==
    (last.op \in Checks \cup {"_parse_plan"} /\ last.arg.ty = "dict")
    => LET before == last.arg.val
           after == last.after.val
       IN  /\ last.after.ty = "dict"
           /\ [after EXCEPT !.plan_id = before.plan_id] = before
           /\ IF before.plan_id # Missing /\ before.plan_id.ty = "str"
              THEN IF \E n \in DOMAIN UuidText : Denotes(before.plan_id.s, UuidObj(n))
                   THEN Denotes(before.plan_id.s, after.plan_id)
                   ELSE after.plan_id = Missing
              ELSE after = before

\* a check was given a dict whose plan_id is the text 433-standard-001: it
\* succeeded and the key is gone from the dict
C29_Witness ==
    /\ last.op \in Checks
    /\ last.arg.ty = "dict"
    /\ last.arg.val.plan_id = Str(<<"433-standard-001">>)
    /\ last.after.val.plan_id = Missing
    /\ last.result.valid

\* the resolver was given a dict with an identifier text and a roster the
\* constructor rejects: it failed, and the dict holds the identifier parsed
C29_WitnessFailed ==
    /\ last.op = "_parse_plan"
    /\ last.arg.ty = "dict"
    /\ last.arg.val.plan_id = FirstId
    /\ ~last.result.ok
    /\ last.after.val.plan_id = UuidObj(1)

\* ------------------------- one name given to the store and to the resolver (C30)
\* names that are no JSON and no identifier: without extension, with .json, with
\* another extension, and with a leading dot
GivenNames == {<<"myplan">>, <<"plan", "json">>, <<"plan", "v2">>, <<"", "hidden">>}

\* the held plan changes between saves, so that the records differ
NextNames ==
    \/ \E t \in {<<>>, <<"opponent back pass">>} : SetTriggers(t)
    \/ \E f \in GivenNames : SavePlan(f)
    \/ \E f \in GivenNames : LoadPlan(f)
    \/ \E f \in GivenNames : DeletePlan(f)
    \/ \E f \in GivenNames : Resolve(StrArg(Text(f, NotJson)))

SpecNames == InitResolve /\ [][NextNames]_vars

\* the file the store addresses for a name: the name, with .json after it unless
\* it ends in .json
StoreFile(name) ==
    IF Len(name) >= 2 /\ name[Len(name)] = "json" THEN name ELSE name \o <<"json">>

\* the name has an extension that is not .json
OtherExtension(name) ==
    /\ Len(name) >= 2
    /\ name[Len(name)] \notin {"", "json"}
    /\ SubSeq(name, 1, Len(name) - 1) # <<"">>

\* the latest call resolved the text of a name
ResolvedName ==
    /\ last.op = "_parse_plan"
    /\ last.arg.ty = "str"
    /\ last.arg.val.json = NotJson
    /\ last.arg.val.s \in GivenNames

\* save, load and delete address StoreFile(name)
StoreAddresses ==
    /\ (last.op = "save_plan" /\ last.after.name # NoFilename)
       => /\ last.result = Ok(StoreFile(last.after.name))
          /\ StoreFile(last.after.name) \in DOMAIN store
          /\ store[StoreFile(last.after.name)] = model_dump_json(obj)
    /\ last.op = "load_plan"
       => IF StoreFile(last.arg.name) \in DOMAIN store
          THEN BuiltFrom(last.result, store[StoreFile(last.arg.name)])
          ELSE NotFound(last.result)
    /\ last.op = "delete_plan" => StoreFile(last.arg.name) \notin DOMAIN store

C30_WitnessSame ==
    /\ ResolvedName
    /\ last.arg.val.s = <<"", "hidden">>
    /\ BuiltFrom(last.result, store[<<"", "hidden", "json">>])

====
